---------------------------- MODULE Spec2Model ----------------------------
(***************************************************************************)
(* Model of the scheduler agent of Kuroakira/ai-agents:                    *)
(*   src/agents/scheduler/tools.py   calculate_free_slots                  *)
(*   src/agents/scheduler/nodes.py   fetch_calendar_events, analyze_tasks, *)
(*                                   schedule_tasks, _parse_preferred_time,*)
(*                                   _update_slots, generate_response      *)
(*   src/agents/scheduler/graph.py   the linear workflow of the four nodes *)
(*                                                                         *)
(* Time is an integer number of seconds counted from midnight of the day   *)
(* on which the run takes place (datetime values in one fixed timezone).   *)
(* A free slot is the tuple <<start, end>> of the source; a calendar event *)
(* is a record with the fields start_time and end_time.                    *)
(***************************************************************************)
EXTENDS Integers, Sequences, FiniteSets, TLC

VARIABLES
    pc,               \* the workflow node about to run ("calc*" in SpecCalc)
    now,              \* datetime.now(TIMEZONE), seconds since midnight
    work_start_hour,  \* argument of calculate_free_slots
    work_end_hour,    \* argument of calculate_free_slots
    todays_events,    \* SchedulerState.todays_events
    free_slots,       \* SchedulerState.free_slots
    extracted_tasks,  \* SchedulerState.extracted_tasks
    scheduled_events, \* SchedulerState.scheduled_events
    error_message,    \* SchedulerState.error_message ("none" for None)
    response_text,    \* SchedulerState.response_text (its kind)
    available_slots,  \* schedule_tasks: the local copy of free_slots
    sched_local,      \* schedule_tasks: the local list scheduled_events
    task_idx,         \* schedule_tasks: position of the for loop (1-based)
    placements,       \* history: per processed task, its interval or unplaced
    commit_calls,     \* history: task indices add_event_to_calendar was called for
    second_slots,     \* the list returned by a second call of calculate_free_slots
    conc_runs,        \* concurrent runs: per run, its state and its locals
    conc_lists,       \* concurrent runs: the list objects of available_slots
    sweep_events,     \* calculate_free_slots: the local sorted_events
    sweep_idx,        \* calculate_free_slots: position of the for loop (1-based)
    sweep_time,       \* calculate_free_slots: the local current_time
    persona,          \* customer persona: the AgentState of the run
    generate_calls,   \* history: executions of generate_feedback in the run
    processed_messages, \* memo bot: the keys of _processed_messages, in order
    memo_threads,     \* memo bot: per handler thread, its position and locals
    calls_left,       \* memo bot: messages still to be delivered
    memo_next_ts,     \* memo bot: the next timestamp not yet delivered
    memo_inserted,    \* history: the timestamps inserted into the cache, in order
    graph_runs        \* history: the timestamps the memo graph was run for

\* The variables that only the runs outside the workflow change.
sweep_vars == << sweep_events, sweep_idx, sweep_time >>

persona_vars == << persona, generate_calls >>

memo_vars == << processed_messages, memo_threads, calls_left, memo_next_ts,
               memo_inserted, graph_runs >>

extra_vars == << second_slots, conc_runs, conc_lists, sweep_vars,
                persona_vars, memo_vars >>

vars == << pc, now, work_start_hour, work_end_hour, todays_events, free_slots,
           extracted_tasks, scheduled_events, error_message, response_text,
           available_slots, sched_local, task_idx, placements, commit_calls,
           second_slots, conc_runs, conc_lists, sweep_vars, persona_vars,
           memo_vars >>

\* The variables of the scheduler agent, but for pc.
scheduler_state ==
    << now, work_start_hour, work_end_hour, todays_events, free_slots,
       extracted_tasks, scheduled_events, error_message, response_text,
       available_slots, sched_local, task_idx, placements, commit_calls,
       second_slots, conc_runs, conc_lists, sweep_vars >>

\* The scheduler agent has not been started.
SchedulerIdle ==
    /\ now = 0
    /\ work_start_hour = 0
    /\ work_end_hour = 0
    /\ todays_events = <<>>
    /\ free_slots = <<>>
    /\ extracted_tasks = <<>>
    /\ scheduled_events = <<>>
    /\ error_message = "none"
    /\ response_text = ""
    /\ available_slots = <<>>
    /\ sched_local = <<>>
    /\ task_idx = 0
    /\ placements = <<>>
    /\ commit_calls = <<>>
    /\ second_slots = <<>>
    /\ conc_runs = <<>>
    /\ conc_lists = <<>>
    /\ sweep_events = <<>>
    /\ sweep_idx = 0
    /\ sweep_time = 0

\* The persona agent has not been started.
PersonaIdle ==
    /\ persona = <<>>
    /\ generate_calls = 0

\* The memo bot has not been started.
MemoIdle ==
    /\ processed_messages = <<>>
    /\ memo_threads = <<>>
    /\ calls_left = 0
    /\ memo_next_ts = 0
    /\ memo_inserted = <<>>
    /\ graph_runs = <<>>

OthersIdle == PersonaIdle /\ MemoIdle

---------------------------------------------------------------------------
(* Bounds of the exploration *)

MaxEvents == 2
MaxTasks == 2

(* Program constants *)

DefaultWorkStartHour == 9
DefaultWorkEndHour == 21

Hour(h) == h * 3600
Minute(m) == m * 60

\* Candidate end points of calendar events.
EventTimes == { Hour(8), Hour(12), Hour(13) + Minute(30), Hour(14) + Minute(30) }

\* Candidate readings of the clock: before the window, inside it (off the
\* minute grid), on the hour, late in it, and after its end.
Nows == { Hour(7), Hour(10) + 30, Hour(12), Hour(13) + Minute(45), Hour(21) + 5 }

\* The readings of the clock tried in the workflow: before the window,
\* inside it, and after its end.
WorkflowNows == { Hour(7), Hour(10) + 30, Hour(21) + 5 }

\* Candidate (work_start_hour, work_end_hour) arguments.
HourPairs == { <<9, 21>>, <<12, 14>>, <<13, 13>>, <<14, 12>>, <<8, 12>> }

\* Calendar events: start_time <= end_time (a zero-length event is allowed by
\* the calendar, an end before the start is not).
Events == { ev \in [start_time : EventTimes, end_time : EventTimes] :
                ev.start_time <= ev.end_time }

\* The sequences over S of length at most n.
RECURSIVE SeqsUpTo(_, _)
SeqsUpTo(S, n) ==
    IF n = 0 THEN { <<>> }
    ELSE LET shorter == SeqsUpTo(S, n - 1)
         IN  shorter \cup { Append(q, x) : q \in shorter, x \in S }

EventSeqs == SeqsUpTo(Events, MaxEvents)

IsSortedByStart(evs) ==
    \A i \in 1..(Len(evs) - 1) : evs[i].start_time <= evs[i + 1].start_time

\* The events tried in the workflow: one that starts before the window,
\* those of positive length inside it, and one of length zero.
WorkflowEvents ==
    { ev \in Events : /\ ev.start_time < ev.end_time
                      /\ ev.start_time = Hour(8) => ev.end_time = Hour(12) }
    \cup { [start_time |-> Hour(12), end_time |-> Hour(12)] }

\* get_todays_events asks the calendar for orderBy="startTime".
OrderedEventSeqs ==
    { evs \in SeqsUpTo(WorkflowEvents, MaxEvents) : IsSortedByStart(evs) }

\* The text of TaskItem.preferred_time, reduced to what _parse_preferred_time
\* reads of it: whether it is present (not None, not empty), whether it holds
\* an afternoon marker ("午後" or "PM"), a morning marker ("午前" or "AM"),
\* and the integer groups found by re.findall(r"\d+", ...).
TimeText(isPm, isAm, numbers) ==
    [present |-> TRUE, pm |-> isPm, am |-> isAm, nums |-> numbers,
     wide |-> {}]

NoText ==
    [present |-> FALSE, pm |-> FALSE, am |-> FALSE, nums |-> <<>>,
     wide |-> {}]

\* The largest value of a C int, the type datetime.replace takes its
\* arguments as.
CIntMax == 2147483647

\* A text with integer groups above CIntMax: wideGroups holds the positions
\* of these groups, and nums holds CIntMax in their place (int() itself has
\* no upper limit).
WideText(isPm, isAm, numbers, wideGroups) ==
    [present |-> TRUE, pm |-> isPm, am |-> isAm, nums |-> numbers,
     wide |-> wideGroups]

Task(minutes, text) ==
    [estimated_duration_minutes |-> minutes, preferred_time |-> text]

\* The tasks tried: 30 minutes at "10時", 60 minutes without a preferred
\* time, 420 minutes without one, 60 minutes at "午後2時", 420 minutes at
\* "10時".  estimated_duration_minutes is positive, as the data model of
\* the tasks requires.
Tasks ==
    { Task(30, TimeText(FALSE, FALSE, <<10>>)),
      Task(60, NoText),
      Task(420, NoText),
      Task(60, TimeText(TRUE, FALSE, <<2>>)),
      Task(420, TimeText(FALSE, FALSE, <<10>>)) }

TaskSeqs == SeqsUpTo(Tasks, MaxTasks)

\* The integer groups of the texts tried on the parser: none, one, two and
\* three groups, hours around 12 and 24, minutes around 60.
NumberGroups ==
    { <<>>, <<0>>, <<2>>, <<11>>, <<12>>, <<13>>, <<24>>,
      <<10, 30>>, <<12, 59>>, <<10, 60>>, <<2, 30, 15>> }

\* The texts tried on the parser: every combination of the two markers with
\* every choice of the integer groups.
ParserTexts ==
    { TimeText(isPm, isAm, numbers) :
        isPm \in BOOLEAN, isAm \in BOOLEAN, numbers \in NumberGroups }
    \cup { WideText(TRUE, FALSE, << CIntMax >>, { 1 }),
           WideText(FALSE, FALSE, << 10, CIntMax >>, { 2 }),
           WideText(FALSE, FALSE, << 10, 30, CIntMax >>, { 3 }) }

\* The tasks tried on the parser: a short and a long one for every text.
ParserTasks ==
    { Task(minutes, text) : minutes \in { 60, 420 },
                            text \in ParserTexts \cup { NoText } }

---------------------------------------------------------------------------
(* calculate_free_slots *)

\* sorted(events, key=lambda e: e.start_time): a stable sort.
RECURSIVE InsertByStart(_, _)
InsertByStart(sortedEvs, ev) ==
    IF sortedEvs = <<>> THEN << ev >>
    ELSE IF sortedEvs[Len(sortedEvs)].start_time <= ev.start_time
         THEN Append(sortedEvs, ev)
         ELSE Append(InsertByStart(SubSeq(sortedEvs, 1, Len(sortedEvs) - 1), ev),
                     sortedEvs[Len(sortedEvs)])

RECURSIVE SortByStart(_)
SortByStart(evs) ==
    IF evs = <<>> THEN <<>>
    ELSE InsertByStart(SortByStart(SubSeq(evs, 1, Len(evs) - 1)), evs[Len(evs)])

\* The start of the clamped window: today@work_start_hour, or now if later.
WindowStart(ws, nw) == IF nw > Hour(ws) THEN nw ELSE Hour(ws)

WindowEnd(we) == Hour(we)

\* A cursor that is never advanced (mutation of AdvanceCursor).
AdvanceCursorStuck(current_time, event_end) == current_time

\* A cursor that follows the last event even backwards (mutation of AdvanceCursor).
AdvanceCursorNoGuard(current_time, event_end) == event_end

\* if event_end > current_time: current_time = event_end
AdvanceCursor(current_time, event_end) ==
    IF event_end > current_time THEN event_end ELSE current_time

\* A gap of length zero counts as free time (mutation of GapBefore).
GapBeforeOrTouching(current_time, event_start) == event_start >= current_time

\* if event_start > current_time: there is free time before the event.
GapBefore(current_time, event_start) == event_start > current_time

\* No event is skipped (mutation of EventOutside).
EventOutsideNever(event_start, event_end, today_start, today_end) == FALSE

\* if event_end <= today_start or event_start >= today_end: continue
EventOutside(event_start, event_end, today_start, today_end) ==
    event_end <= today_start \/ event_start >= today_end

\* The for loop over sorted_events followed by the trailing slot.
RECURSIVE Sweep(_, _, _, _, _, _)
Sweep(sorted_events, i, current_time, slots, today_start, today_end) ==
    IF i > Len(sorted_events)
    THEN IF current_time < today_end
         THEN Append(slots, << current_time, today_end >>)
         ELSE slots
    ELSE LET event_start == sorted_events[i].start_time
             event_end   == sorted_events[i].end_time
         IN  IF EventOutside(event_start, event_end, today_start, today_end)
             THEN Sweep(sorted_events, i + 1, current_time, slots,
                        today_start, today_end)
             ELSE Sweep(sorted_events, i + 1,
                        AdvanceCursor(current_time, event_end),
                        IF GapBefore(current_time, event_start)
                        THEN Append(slots, << current_time, event_start >>)
                        ELSE slots,
                        today_start, today_end)

\* The reading of the clock is not used (mutation of calculate_free_slots).
calculate_free_slots_ignores_now(events, ws, we, nw) ==
    Sweep(SortByStart(events), 1, Hour(ws), <<>>, Hour(ws), WindowEnd(we))

calculate_free_slots(events, ws, we, nw) ==
    IF nw >= WindowEnd(we)
    THEN <<>>
    ELSE Sweep(SortByStart(events), 1, WindowStart(ws, nw), <<>>,
               WindowStart(ws, nw), WindowEnd(we))

---------------------------------------------------------------------------
(* Specification of the calculator alone: the inputs are drawn in InitCalc *)
(* and CalcStep applies calculate_free_slots to them.                      *)

InitCalc ==
    /\ pc = "calc"
    /\ now \in Nows
    /\ \E hp \in HourPairs : work_start_hour = hp[1] /\ work_end_hour = hp[2]
    /\ todays_events \in EventSeqs
    /\ free_slots = <<>>
    /\ extracted_tasks = <<>>
    /\ scheduled_events = <<>>
    /\ error_message = "none"
    /\ response_text = ""
    /\ available_slots = <<>>
    /\ sched_local = <<>>
    /\ task_idx = 0
    /\ placements = <<>>
    /\ commit_calls = <<>>
    /\ second_slots = <<>>
    /\ conc_runs = <<>>
    /\ conc_lists = <<>>
    /\ sweep_events = <<>>
    /\ sweep_idx = 0
    /\ sweep_time = 0
    /\ OthersIdle

CalcStep ==
    /\ pc = "calc"
    /\ UNCHANGED extra_vars
    /\ free_slots' = calculate_free_slots(todays_events, work_start_hour,
                                          work_end_hour, now)
    /\ pc' = "calc_done"
    /\ UNCHANGED << now, work_start_hour, work_end_hour, todays_events,
                    extracted_tasks, scheduled_events, error_message,
                    response_text, available_slots, sched_local, task_idx,
                    placements, commit_calls >>

\* The calculator is called once more, now with an empty list of events and
\* with the same hours and the same reading of the clock.
CalcAgain ==
    /\ pc = "calc_done"
    /\ second_slots' = calculate_free_slots(<<>>, work_start_hour,
                                            work_end_hour, now)
    /\ pc' = "calc_again_done"
    /\ UNCHANGED << now, work_start_hour, work_end_hour, todays_events,
                    free_slots, extracted_tasks, scheduled_events,
                    error_message, response_text, available_slots,
                    sched_local, task_idx, placements, commit_calls,
                    conc_runs, conc_lists, sweep_vars, persona_vars,
                    memo_vars >>

NextCalc == CalcStep \/ CalcAgain

SpecCalc == InitCalc /\ [][NextCalc]_vars

---------------------------------------------------------------------------
(* calculate_free_slots statement by statement: the guards, the sort, one  *)
(* step per iteration of the for loop, and the return.                     *)

InitSweep ==
    /\ pc = "sweep_enter"
    /\ now \in Nows
    /\ \E hp \in HourPairs : work_start_hour = hp[1] /\ work_end_hour = hp[2]
    /\ todays_events \in EventSeqs
    /\ free_slots = <<>>
    /\ extracted_tasks = <<>>
    /\ scheduled_events = <<>>
    /\ error_message = "none"
    /\ response_text = ""
    /\ available_slots = <<>>
    /\ sched_local = <<>>
    /\ task_idx = 0
    /\ placements = <<>>
    /\ commit_calls = <<>>
    /\ second_slots = <<>>
    /\ conc_runs = <<>>
    /\ conc_lists = <<>>
    /\ sweep_events = <<>>
    /\ sweep_idx = 0
    /\ sweep_time = 0
    /\ OthersIdle

\* The variables calculate_free_slots neither reads as locals nor writes.
sweep_frame ==
    << now, work_start_hour, work_end_hour, todays_events, extracted_tasks,
       scheduled_events, error_message, response_text, available_slots,
       sched_local, task_idx, placements, commit_calls, second_slots,
       conc_runs, conc_lists, persona_vars, memo_vars >>

\* The for loop stays at the same event (mutation of NextEvent).
NextEventSame(idx) == idx

\* for event in sweep_events: the loop moves on to the next event.
NextEvent(idx) == idx + 1

\* The clamp of today_start, the early return after working hours, the
\* sort and the initial values of the locals.
SweepEnter ==
    /\ pc = "sweep_enter"
    /\ IF now >= WindowEnd(work_end_hour)
       THEN /\ free_slots' = <<>>
            /\ pc' = "sweep_returned"
            /\ UNCHANGED sweep_vars
       ELSE /\ sweep_events' = SortByStart(todays_events)
            /\ free_slots' = <<>>
            /\ sweep_time' = WindowStart(work_start_hour, now)
            /\ sweep_idx' = 1
            /\ pc' = "sweep_for"
    /\ UNCHANGED sweep_frame

\* One iteration of the for loop.
SweepIterate ==
    /\ pc = "sweep_for"
    /\ sweep_idx <= Len(sweep_events)
    /\ LET event_start == sweep_events[sweep_idx].start_time
           event_end   == sweep_events[sweep_idx].end_time
           today_start == WindowStart(work_start_hour, now)
           today_end   == WindowEnd(work_end_hour)
       IN  IF EventOutside(event_start, event_end, today_start, today_end)
           THEN UNCHANGED << free_slots, sweep_time >>
           ELSE /\ free_slots' =
                      IF GapBefore(sweep_time, event_start)
                      THEN Append(free_slots, << sweep_time, event_start >>)
                      ELSE free_slots
                /\ sweep_time' = AdvanceCursor(sweep_time, event_end)
    /\ sweep_idx' = NextEvent(sweep_idx)
    /\ UNCHANGED << pc, sweep_events >>
    /\ UNCHANGED sweep_frame

\* After the loop: the trailing slot and the return.
SweepReturn ==
    /\ pc = "sweep_for"
    /\ sweep_idx > Len(sweep_events)
    /\ free_slots' = IF sweep_time < WindowEnd(work_end_hour)
                     THEN Append(free_slots,
                                 << sweep_time, WindowEnd(work_end_hour) >>)
                     ELSE free_slots
    /\ pc' = "sweep_returned"
    /\ UNCHANGED sweep_vars
    /\ UNCHANGED sweep_frame

NextSweep == SweepEnter \/ SweepIterate \/ SweepReturn

SpecSweep == InitSweep /\ [][NextSweep]_vars

\* The interpreter runs the call on: no statement is suspended for ever.
SpecSweepFair == SpecSweep /\ WF_vars(NextSweep)

---------------------------------------------------------------------------
(* _parse_preferred_time *)

None == <<>>

\* The hour is folded on "hour <= 12" (mutation of FoldedHour).
FoldedHourNoonShifted(text) ==
    LET hour == text.nums[1]
    IN  IF text.pm /\ hour <= 12 THEN hour + 12
        ELSE IF text.am /\ hour = 12 THEN 0
        ELSE hour

\* hour after the am/pm folding
FoldedHour(text) ==
    LET hour == text.nums[1]
    IN  IF text.pm /\ hour < 12 THEN hour + 12
        ELSE IF text.am /\ hour = 12 THEN 0
        ELSE hour

ParsedMinute(text) == IF Len(text.nums) > 1 THEN text.nums[2] ELSE 0

\* base_date.replace(hour=hour, minute=minute, ...) raises OverflowError,
\* which "except ValueError" does not catch, when the hour or the minute is
\* above CIntMax; the groups after the second are not handed to it.
ParseRaises(text) ==
    /\ text.present
    /\ \E i \in text.wide : i <= 2 /\ i <= Len(text.nums)

\* base_date is midnight of the day of datetime.now(); the result is None or
\* the one-element tuple holding the resolved time.
_parse_preferred_time(text, base_date) ==
    IF text.nums = <<>> THEN None
    ELSE IF FoldedHour(text) \in 0..23 /\ ParsedMinute(text) \in 0..59
         THEN << base_date + Hour(FoldedHour(text)) + Minute(ParsedMinute(text)) >>
         ELSE None

---------------------------------------------------------------------------
(* schedule_tasks and _update_slots *)

Min(S) == CHOOSE x \in S : \A y \in S : x <= y

\* A list that is left as it was (mutation of _update_slots).
_update_slots_forgotten(slots, index, used_start, used_end) == slots

\* The leftover after the placement is dropped (mutation of _update_slots).
_update_slots_no_after(slots, index, used_start, used_end) ==
    SubSeq(slots, 1, index - 1)
    \o (IF used_start > slots[index][1]
        THEN << << slots[index][1], used_start >> >> ELSE <<>>)
    \o SubSeq(slots, index + 1, Len(slots))

\* The leftovers are inserted in the wrong order (mutation of _update_slots).
_update_slots_swapped(slots, index, used_start, used_end) ==
    SubSeq(slots, 1, index - 1)
    \o (IF used_end < slots[index][2]
        THEN << << used_end, slots[index][2] >> >> ELSE <<>>)
    \o (IF used_start > slots[index][1]
        THEN << << slots[index][1], used_start >> >> ELSE <<>>)
    \o SubSeq(slots, index + 1, Len(slots))

\* Both leftovers are put back, empty or not (mutation of _update_slots).
_update_slots_keeps_empty(slots, index, used_start, used_end) ==
    SubSeq(slots, 1, index - 1)
    \o << << slots[index][1], used_start >>, << used_end, slots[index][2] >> >>
    \o SubSeq(slots, index + 1, Len(slots))

\* The slot is cut at the start of the used interval and the used time
\* stays in the list (mutation of _update_slots).
_update_slots_cut_only(slots, index, used_start, used_end) ==
    SubSeq(slots, 1, index - 1)
    \o (IF used_start > slots[index][1]
        THEN << << slots[index][1], used_start >> >> ELSE <<>>)
    \o << << used_start, slots[index][2] >> >>
    \o SubSeq(slots, index + 1, Len(slots))

\* slots.pop(index), then the leftover before and the leftover after the
\* used interval are inserted at the position of the removed slot.
_update_slots(slots, index, used_start, used_end) ==
    LET slot_start == slots[index][1]
        slot_end   == slots[index][2]
        before == IF used_start > slot_start
                  THEN << << slot_start, used_start >> >> ELSE <<>>
        after  == IF used_end < slot_end
                  THEN << << used_end, slot_end >> >> ELSE <<>>
    IN  SubSeq(slots, 1, index - 1) \o before \o after
        \o SubSeq(slots, index + 1, Len(slots))

\* The preferred time is never honoured (mutation of PreferredIndex).
PreferredIndexNever(slots, preferred_start, duration) == 0

\* The room after the preferred time is not looked at (mutation of
\* PreferredIndex).
PreferredIndexNoRoom(slots, preferred_start, duration) ==
    LET fit == { i \in 1..Len(slots) :
                   /\ slots[i][1] <= preferred_start
                   /\ preferred_start < slots[i][2] }
    IN  IF fit = {} THEN 0 ELSE Min(fit)

\* First slot holding preferred_start with enough room after it; 0 if none.
PreferredIndex(slots, preferred_start, duration) ==
    LET fit == { i \in 1..Len(slots) :
                   /\ slots[i][1] <= preferred_start
                   /\ preferred_start < slots[i][2]
                   /\ slots[i][2] - preferred_start >= duration }
    IN  IF fit = {} THEN 0 ELSE Min(fit)

\* The room is required to exceed the duration (mutation of FallbackIndex).
FallbackIndexStrict(slots, duration) ==
    LET fit == { i \in 1..Len(slots) : slots[i][2] - slots[i][1] > duration }
    IN  IF fit = {} THEN 0 ELSE Min(fit)

\* First slot at least as long as the duration; 0 if none.
FallbackIndex(slots, duration) ==
    LET fit == { i \in 1..Len(slots) : slots[i][2] - slots[i][1] >= duration }
    IN  IF fit = {} THEN 0 ELSE Min(fit)

\* preferred_start of a task: None without a text, else the parsed text.
PreferredStart(task) ==
    IF task.preferred_time.present
    THEN _parse_preferred_time(task.preferred_time, 0)
    ELSE None

TaskDuration(task) == Minute(task.estimated_duration_minutes)

\* One iteration of the for loop up to the commit: the two searches and the
\* update of the slot list.  placed is FALSE when start_time stays None.
PlaceTask(slots, task) ==
    LET duration == TaskDuration(task)
        preferred_start == PreferredStart(task)
        pi == IF preferred_start # None
              THEN PreferredIndex(slots, preferred_start[1], duration)
              ELSE 0
        fi == FallbackIndex(slots, duration)
    IN  IF pi > 0
        THEN [placed |-> TRUE,
              preferred_start |-> preferred_start,
              start_time |-> preferred_start[1],
              end_time |-> preferred_start[1] + duration,
              slots |-> _update_slots(slots, pi, preferred_start[1],
                                      preferred_start[1] + duration)]
        ELSE IF fi > 0
        THEN [placed |-> TRUE,
              preferred_start |-> preferred_start,
              start_time |-> slots[fi][1],
              end_time |-> slots[fi][1] + duration,
              slots |-> _update_slots(slots, fi, slots[fi][1],
                                      slots[fi][1] + duration)]
        ELSE [placed |-> FALSE, preferred_start |-> preferred_start,
              start_time |-> 0, end_time |-> 0, slots |-> slots]

\* The loop works on the caller's own list (mutation of CallerSlotsAfter).
CallerSlotsAliased(caller_slots, local_slots) == local_slots

\* available_slots = list(state.free_slots): the loop updates a copy, so the
\* list of the caller is what it was whatever the local list has become.
CallerSlotsAfter(caller_slots, local_slots) == caller_slots

\* Every task is handed to the calendar (mutation of ShouldCommit).
ShouldCommitAlways(placed) == TRUE

\* if start_time and end_time: the task was given a slot.
ShouldCommit(placed) == placed

\* The events registered so far are dropped (mutation of CommitFailureResult).
CommitFailureRetracts(registered) ==
    [error_message |-> "commit_failed", scheduled_events |-> <<>>]

\* The dictionary returned from the except branch of the commit.
CommitFailureResult(registered) ==
    [error_message |-> "commit_failed", scheduled_events |-> registered]

---------------------------------------------------------------------------
(* The workflow fetch_calendar_events -> analyze_tasks -> schedule_tasks   *)
(* -> generate_response.                                                   *)

Init ==
    /\ pc = "fetch_calendar_events"
    /\ now \in WorkflowNows
    /\ work_start_hour = DefaultWorkStartHour
    /\ work_end_hour = DefaultWorkEndHour
    /\ todays_events = <<>>
    /\ free_slots = <<>>
    /\ extracted_tasks = <<>>
    /\ scheduled_events = <<>>
    /\ error_message = "none"
    /\ response_text = ""
    /\ available_slots = <<>>
    /\ sched_local = <<>>
    /\ task_idx = 0
    /\ placements = <<>>
    /\ commit_calls = <<>>
    /\ second_slots = <<>>
    /\ conc_runs = <<>>
    /\ conc_lists = <<>>
    /\ sweep_events = <<>>
    /\ sweep_idx = 0
    /\ sweep_time = 0
    /\ OthersIdle

\* fetch_calendar_events: the events are read and the free slots computed,
\* or the read fails and the error message is set.
FetchCalendarEvents ==
    /\ pc = "fetch_calendar_events"
    /\ UNCHANGED extra_vars
    /\ \/ \E evs \in OrderedEventSeqs :
            /\ todays_events' = evs
            /\ free_slots' = calculate_free_slots(evs, work_start_hour,
                                                  work_end_hour, now)
            /\ UNCHANGED error_message
       \/ \E msg \in { "credentials_missing", "calendar_fetch_failed" } :
            /\ error_message' = msg
            /\ todays_events' = <<>>
            /\ free_slots' = <<>>
    /\ pc' = "analyze_tasks"
    /\ UNCHANGED << now, work_start_hour, work_end_hour, extracted_tasks,
                    scheduled_events, response_text, available_slots,
                    sched_local, task_idx, placements, commit_calls >>

\* analyze_tasks: nothing after an error; else the tasks are extracted from
\* the answer of the language model, or its JSON cannot be decoded.
AnalyzeTasks ==
    /\ pc = "analyze_tasks"
    /\ UNCHANGED extra_vars
    /\ \/ /\ error_message # "none"
          /\ UNCHANGED << extracted_tasks, error_message >>
       \/ /\ error_message = "none"
          /\ \E tasks \in TaskSeqs : extracted_tasks' = tasks
          /\ UNCHANGED error_message
       \/ /\ error_message = "none"
          /\ error_message' = "task_parse_failed"
          /\ extracted_tasks' = <<>>
    /\ pc' = "schedule_tasks"
    /\ UNCHANGED << now, work_start_hour, work_end_hour, todays_events,
                    free_slots, scheduled_events, response_text,
                    available_slots, sched_local, task_idx, placements,
                    commit_calls >>

\* schedule_tasks, entry: the early return, or the set-up of the loop.
ScheduleTasksEnter ==
    /\ pc = "schedule_tasks"
    /\ UNCHANGED extra_vars
    /\ \/ /\ error_message # "none" \/ extracted_tasks = <<>>
          /\ pc' = "generate_response"
          /\ UNCHANGED << available_slots, sched_local, task_idx >>
       \/ /\ error_message = "none" /\ extracted_tasks # <<>>
          /\ pc' = "schedule_tasks_loop"
          /\ available_slots' = free_slots
          /\ sched_local' = <<>>
          /\ task_idx' = 1
    /\ UNCHANGED << now, work_start_hour, work_end_hour, todays_events,
                    free_slots, extracted_tasks, scheduled_events,
                    error_message, response_text, placements, commit_calls >>

\* schedule_tasks, one iteration of the loop: the slot search, the update of
\* the slot list and the commit, which succeeds or raises.  An exception of
\* _parse_preferred_time leaves the node and the graph ("RAISED").
ScheduleTasksIterate ==
    /\ pc = "schedule_tasks_loop"
    /\ UNCHANGED extra_vars
    /\ task_idx <= Len(extracted_tasks)
    /\ IF ParseRaises(extracted_tasks[task_idx].preferred_time)
       THEN
           /\ pc' = "RAISED"
           /\ UNCHANGED << free_slots, scheduled_events, error_message,
                           available_slots, sched_local, task_idx,
                           placements, commit_calls >>
       ELSE
       LET r == PlaceTask(available_slots, extracted_tasks[task_idx])
           event == [task |-> task_idx, start_time |-> r.start_time,
                     end_time |-> r.end_time]
       IN  /\ available_slots' = r.slots
           /\ free_slots' = CallerSlotsAfter(free_slots, r.slots)
           /\ placements' = Append(placements,
                                   [task |-> task_idx, placed |-> r.placed,
                                    start_time |-> r.start_time,
                                    end_time |-> r.end_time,
                                    preferred_start |-> r.preferred_start,
                                    slots_before |-> available_slots])
           /\ \/ /\ ~ ShouldCommit(r.placed)
                 /\ task_idx' = task_idx + 1
                 /\ UNCHANGED << pc, sched_local, scheduled_events,
                                 error_message, commit_calls >>
              \/ /\ ShouldCommit(r.placed)
                 /\ commit_calls' = Append(commit_calls, task_idx)
                 /\ sched_local' = Append(sched_local, event)
                 /\ task_idx' = task_idx + 1
                 /\ UNCHANGED << pc, scheduled_events, error_message >>
              \/ /\ ShouldCommit(r.placed)
                 /\ commit_calls' = Append(commit_calls, task_idx)
                 /\ error_message' = CommitFailureResult(sched_local).error_message
                 /\ scheduled_events' =
                        CommitFailureResult(sched_local).scheduled_events
                 /\ pc' = "generate_response"
                 /\ UNCHANGED << sched_local, task_idx >>
    /\ UNCHANGED << now, work_start_hour, work_end_hour, todays_events,
                    extracted_tasks, response_text >>

\* schedule_tasks, after the loop: return {"scheduled_events": ...}.
ScheduleTasksReturn ==
    /\ pc = "schedule_tasks_loop"
    /\ UNCHANGED extra_vars
    /\ task_idx > Len(extracted_tasks)
    /\ scheduled_events' = sched_local
    /\ pc' = "generate_response"
    /\ UNCHANGED << now, work_start_hour, work_end_hour, todays_events,
                    free_slots, extracted_tasks, error_message, response_text,
                    available_slots, sched_local, task_idx, placements,
                    commit_calls >>

\* The text generate_response gives for an error: the warning heading
\* followed by the error message.
ErrorResponse(message) == "error: " \o message

\* The error message is not looked at (mutation of ResponseText).
ResponseTextIgnoresError(message, registered) ==
    IF registered = <<>> THEN "no_tasks" ELSE "registered"

\* The three texts of generate_response: the error text when error_message
\* is set, else the "nothing to register" text when scheduled_events is
\* empty, else the list of the registered events (its kind).
ResponseText(message, registered) ==
    IF message # "none" THEN ErrorResponse(message)
    ELSE IF registered = <<>> THEN "no_tasks"
    ELSE "registered"

\* generate_response: the error text, the "nothing to register" text or the
\* list of the registered events.
GenerateResponse ==
    /\ pc = "generate_response"
    /\ UNCHANGED extra_vars
    /\ response_text' = ResponseText(error_message, scheduled_events)
    /\ pc' = "END"
    /\ UNCHANGED << now, work_start_hour, work_end_hour, todays_events,
                    free_slots, extracted_tasks, scheduled_events,
                    error_message, available_slots, sched_local, task_idx,
                    placements, commit_calls >>

Next ==
    \/ FetchCalendarEvents
    \/ AnalyzeTasks
    \/ ScheduleTasksEnter
    \/ ScheduleTasksIterate
    \/ ScheduleTasksReturn
    \/ GenerateResponse

Spec == Init /\ [][Next]_vars

---------------------------------------------------------------------------
(* Specification of the placer on the texts of the parser: the state after *)
(* fetch_calendar_events and analyze_tasks with at most one task, whose    *)
(* preferred_time is drawn from ParserTexts, then schedule_tasks and       *)
(* generate_response.                                                      *)

InitTexts ==
    /\ pc = "schedule_tasks"
    /\ now \in WorkflowNows
    /\ work_start_hour = DefaultWorkStartHour
    /\ work_end_hour = DefaultWorkEndHour
    /\ todays_events \in OrderedEventSeqs
    /\ free_slots = calculate_free_slots(todays_events, work_start_hour,
                                         work_end_hour, now)
    /\ extracted_tasks \in SeqsUpTo(ParserTasks, 1)
    /\ scheduled_events = <<>>
    /\ error_message = "none"
    /\ response_text = ""
    /\ available_slots = <<>>
    /\ sched_local = <<>>
    /\ task_idx = 0
    /\ placements = <<>>
    /\ commit_calls = <<>>
    /\ second_slots = <<>>
    /\ conc_runs = <<>>
    /\ conc_lists = <<>>
    /\ sweep_events = <<>>
    /\ sweep_idx = 0
    /\ sweep_time = 0
    /\ OthersIdle

NextTexts ==
    \/ ScheduleTasksEnter
    \/ ScheduleTasksIterate
    \/ ScheduleTasksReturn
    \/ GenerateResponse

SpecTexts == InitTexts /\ [][NextTexts]_vars

---------------------------------------------------------------------------
(* Two runs of schedule_tasks at the same time: handle_message builds one  *)
(* SchedulerState per message and invokes the graph on it, and each run    *)
(* walks through schedule_tasks and _update_slots statement by statement.  *)

\* The runs in flight.
RunIds == { 1, 2 }

\* The tasks of the concurrent runs.
ConcTasks == { Task(420, NoText), Task(60, TimeText(TRUE, FALSE, <<2>>)) }

\* The calendars of the concurrent runs: empty, or one lunch event.
ConcEvents ==
    SeqsUpTo({ [start_time |-> Hour(12), end_time |-> Hour(13) + Minute(30)] },
             1)

\* Every run works on one list for all its runs (mutation of SlotCell).
SlotCellShared(run) == 1

\* available_slots = list(state.free_slots): the list object the run works
\* on is made by the run itself, one per run.
SlotCell(run) == run

\* list.insert(index, x) on a 1-based list: an index past the end appends.
ListInsert(slots, index, x) ==
    LET j == IF index > Len(slots) + 1 THEN Len(slots) + 1 ELSE index
    IN  SubSeq(slots, 1, j - 1) \o << x >> \o SubSeq(slots, j, Len(slots))

\* list.pop(index) on a 1-based list.
ListPop(slots, index) ==
    SubSeq(slots, 1, index - 1) \o SubSeq(slots, index + 1, Len(slots))

\* The two searches of one iteration: the index of the slot found (0 if
\* none) and the interval given to the task.
SearchSlot(slots, task) ==
    LET duration == TaskDuration(task)
        preferred_start == PreferredStart(task)
        pi == IF preferred_start # None
              THEN PreferredIndex(slots, preferred_start[1], duration)
              ELSE 0
        fi == FallbackIndex(slots, duration)
    IN  IF pi > 0
        THEN [index |-> pi, start_time |-> preferred_start[1],
              end_time |-> preferred_start[1] + duration]
        ELSE IF fi > 0
        THEN [index |-> fi, start_time |-> slots[fi][1],
              end_time |-> slots[fi][1] + duration]
        ELSE [index |-> 0, start_time |-> 0, end_time |-> 0]

\* The state of a run before schedule_tasks is entered.
NewRun(slots, tasks) ==
    [pc |-> "schedule_tasks",
     free_slots |-> slots,
     extracted_tasks |-> tasks,
     task_idx |-> 0,
     index |-> 0,
     start_time |-> 0,
     end_time |-> 0,
     slot_start |-> 0,
     slot_end |-> 0,
     scheduled_events |-> <<>>,
     error_message |-> "none",
     placements |-> <<>>,      \* history: as the variable placements
     entered |-> FALSE,        \* history: the run has made its list
     seen |-> <<>>,            \* history: the list as the run last left it
     interleaved |-> FALSE]    \* history: stepped while the other updated

InitConc ==
    /\ pc = "concurrent"
    /\ now \in WorkflowNows
    /\ work_start_hour = DefaultWorkStartHour
    /\ work_end_hour = DefaultWorkEndHour
    /\ todays_events \in ConcEvents
    /\ free_slots = calculate_free_slots(todays_events, work_start_hour,
                                         work_end_hour, now)
    /\ extracted_tasks = <<>>
    /\ scheduled_events = <<>>
    /\ error_message = "none"
    /\ response_text = ""
    /\ available_slots = <<>>
    /\ sched_local = <<>>
    /\ task_idx = 0
    /\ placements = <<>>
    /\ commit_calls = <<>>
    /\ second_slots = <<>>
    /\ conc_runs \in [RunIds -> { NewRun(free_slots, tasks) :
                                    tasks \in SeqsUpTo(ConcTasks, MaxTasks) }]
    /\ conc_lists = [c \in RunIds |-> <<>>]
    /\ sweep_events = <<>>
    /\ sweep_idx = 0
    /\ sweep_time = 0
    /\ OthersIdle

\* The other run is between the search and the end of its iteration.
OtherInUpdate(r) ==
    \E q \in RunIds \ { r } :
        conc_runs[q].pc \in { "update_read", "update_pop", "update_before",
                              "update_after", "commit" }

\* The variables of the single run, which the concurrent runs leave alone.
single_vars ==
    << pc, now, work_start_hour, work_end_hour, todays_events, free_slots,
       extracted_tasks, scheduled_events, error_message, response_text,
       available_slots, sched_local, task_idx, placements, commit_calls,
       second_slots, sweep_vars, persona_vars, memo_vars >>

\* Run r takes the step that makes its record new_run and the list it
\* works on new_list.
ConcStep(r, new_run, new_list) ==
    /\ conc_runs' =
         [conc_runs EXCEPT ![r] =
            [new_run EXCEPT !.seen = new_list,
                            !.interleaved = @ \/ OtherInUpdate(r)]]
    /\ conc_lists' = [conc_lists EXCEPT ![SlotCell(r)] = new_list]
    /\ UNCHANGED single_vars

\* The guard of schedule_tasks and the copy of state.free_slots.
ConcEnter(r) ==
    LET run == conc_runs[r]
    IN  /\ run.pc = "schedule_tasks"
        /\ IF run.extracted_tasks = <<>>
           THEN /\ conc_runs' = [conc_runs EXCEPT ![r].pc = "END"]
                /\ UNCHANGED conc_lists
                /\ UNCHANGED single_vars
           ELSE ConcStep(r, [run EXCEPT !.pc = "for", !.task_idx = 1,
                                        !.entered = TRUE],
                         run.free_slots)

\* The head of the for loop and the two searches of the iteration.
ConcSearch(r) ==
    LET run == conc_runs[r]
        slots == conc_lists[SlotCell(r)]
    IN  /\ run.pc = "for"
        /\ IF run.task_idx > Len(run.extracted_tasks)
           THEN ConcStep(r, [run EXCEPT !.pc = "END"], slots)
           ELSE LET found == SearchSlot(slots,
                                        run.extracted_tasks[run.task_idx])
                IN  IF ParseRaises(
                           run.extracted_tasks[run.task_idx].preferred_time)
                    THEN ConcStep(r, [run EXCEPT !.pc = "RAISED"], slots)
                    ELSE
                    IF found.index = 0
                    THEN ConcStep(r,
                           [run EXCEPT
                              !.task_idx = @ + 1,
                              !.placements =
                                 Append(@, [placed |-> FALSE,
                                            start_time |-> 0,
                                            end_time |-> 0])],
                           slots)
                    ELSE ConcStep(r,
                           [run EXCEPT !.pc = "update_read",
                                       !.index = found.index,
                                       !.start_time = found.start_time,
                                       !.end_time = found.end_time],
                           slots)

\* _update_slots: slot_start, slot_end = slots[index] (IndexError when the
\* index is past the end of the list).
ConcUpdateRead(r) ==
    LET run == conc_runs[r]
        slots == conc_lists[SlotCell(r)]
    IN  /\ run.pc = "update_read"
        /\ IF run.index > Len(slots)
           THEN ConcStep(r, [run EXCEPT !.pc = "END",
                                        !.error_message = "index_error"],
                         slots)
           ELSE ConcStep(r, [run EXCEPT !.pc = "update_pop",
                                        !.slot_start = slots[run.index][1],
                                        !.slot_end = slots[run.index][2]],
                         slots)

\* _update_slots: slots.pop(index).
ConcUpdatePop(r) ==
    LET run == conc_runs[r]
        slots == conc_lists[SlotCell(r)]
    IN  /\ run.pc = "update_pop"
        /\ IF run.index > Len(slots)
           THEN ConcStep(r, [run EXCEPT !.pc = "END",
                                        !.error_message = "index_error"],
                         slots)
           ELSE ConcStep(r, [run EXCEPT !.pc = "update_before"],
                         ListPop(slots, run.index))

\* _update_slots: the leftover before the used interval.
ConcUpdateBefore(r) ==
    LET run == conc_runs[r]
        slots == conc_lists[SlotCell(r)]
    IN  /\ run.pc = "update_before"
        /\ IF run.start_time > run.slot_start
           THEN ConcStep(r, [run EXCEPT !.pc = "update_after",
                                        !.index = @ + 1],
                         ListInsert(slots, run.index,
                                    << run.slot_start, run.start_time >>))
           ELSE ConcStep(r, [run EXCEPT !.pc = "update_after"], slots)

\* _update_slots: the leftover after the used interval.
ConcUpdateAfter(r) ==
    LET run == conc_runs[r]
        slots == conc_lists[SlotCell(r)]
    IN  /\ run.pc = "update_after"
        /\ IF run.end_time < run.slot_end
           THEN ConcStep(r, [run EXCEPT !.pc = "commit"],
                         ListInsert(slots, run.index,
                                    << run.end_time, run.slot_end >>))
           ELSE ConcStep(r, [run EXCEPT !.pc = "commit"], slots)

\* add_event_to_calendar for the interval found: it returns the event, or
\* it raises and the run returns with the error.
ConcCommit(r) ==
    LET run == conc_runs[r]
        slots == conc_lists[SlotCell(r)]
        placement == [placed |-> TRUE, start_time |-> run.start_time,
                      end_time |-> run.end_time]
        event == [start_time |-> run.start_time, end_time |-> run.end_time]
    IN  /\ run.pc = "commit"
        /\ \/ ConcStep(r, [run EXCEPT
                             !.pc = "for",
                             !.task_idx = @ + 1,
                             !.placements = Append(@, placement),
                             !.scheduled_events = Append(@, event)],
                       slots)
           \/ ConcStep(r, [run EXCEPT
                             !.pc = "END",
                             !.placements = Append(@, placement),
                             !.error_message =
                                CommitFailureResult(<<>>).error_message],
                       slots)

NextConc ==
    \E r \in RunIds :
        \/ ConcEnter(r)
        \/ ConcSearch(r)
        \/ ConcUpdateRead(r)
        \/ ConcUpdatePop(r)
        \/ ConcUpdateBefore(r)
        \/ ConcUpdateAfter(r)
        \/ ConcCommit(r)

SpecConc == InitConc /\ [][NextConc]_vars

---------------------------------------------------------------------------
(* The customer persona agent: generate -> review -> (generate | finalize) *)
(* -> END, with the conditional edge should_regenerate after review.       *)

\* The largest max_iterations tried.
MaxIterationsTried == 5

\* The scores a review is tried with; is_appropriate is given by the
\* reviewer independently of the score.
ReviewScores == { 3, 8 }

ReviewResults ==
    { [is_appropriate |-> a, score |-> sc] :
        a \in BOOLEAN, sc \in ReviewScores }

\* AgentState(idea=..., persona_description=..., max_iterations=limit): the
\* other fields at their defaults.  A feedback is named by the number of the
\* generation that made it.
AgentState(limit) ==
    [feedback |-> None,
     review |-> None,
     iteration |-> 0,
     max_iterations |-> limit,
     status |-> "pending",
     feedback_history |-> <<>>]

\* The limit is tested with > (mutation of should_regenerate).
should_regenerate_past_limit(state) ==
    IF state.iteration > state.max_iterations THEN "complete"
    ELSE IF state.review # None /\ state.review.is_appropriate THEN "complete"
    ELSE "regenerate"

\* The conditional edge after review.
should_regenerate(state) ==
    IF state.iteration >= state.max_iterations THEN "complete"
    ELSE IF state.review # None /\ state.review.is_appropriate THEN "complete"
    ELSE "regenerate"

InitPersona ==
    /\ pc = "generate"
    /\ SchedulerIdle
    /\ MemoIdle
    /\ persona \in { AgentState(limit) : limit \in 0..MaxIterationsTried }
    /\ generate_calls = 0

\* generate_feedback: the feedback of the language model is stored and the
\* iteration is counted.
GenerateFeedback ==
    /\ pc = "generate"
    /\ persona' = [persona EXCEPT !.feedback = << persona.iteration + 1 >>,
                                  !.status = "reviewing",
                                  !.iteration = @ + 1]
    /\ generate_calls' = generate_calls + 1
    /\ pc' = "review"
    /\ UNCHANGED << scheduler_state, memo_vars >>

\* review_feedback with any verdict of the reviewer, then the conditional
\* edge on the updated state.
ReviewFeedback ==
    /\ pc = "review"
    /\ \E review \in ReviewResults :
          LET new_history ==
                  IF ~ review.is_appropriate /\ persona.feedback # None
                  THEN Append(persona.feedback_history, persona.feedback[1])
                  ELSE persona.feedback_history
              updated == [persona EXCEPT !.review = review,
                                         !.feedback_history = new_history]
          IN  /\ persona' = updated
              /\ pc' = IF should_regenerate(updated) = "regenerate"
                       THEN "generate" ELSE "finalize"
    /\ UNCHANGED << generate_calls, scheduler_state, memo_vars >>

\* finalize: completed after an appropriate review, else failed.
Finalize ==
    /\ pc = "finalize"
    /\ persona' = [persona EXCEPT !.status =
                      IF persona.review # None /\ persona.review.is_appropriate
                      THEN "completed" ELSE "failed"]
    /\ pc' = "END"
    /\ UNCHANGED << generate_calls, scheduler_state, memo_vars >>

NextPersona == GenerateFeedback \/ ReviewFeedback \/ Finalize

SpecPersona == InitPersona /\ [][NextPersona]_vars

\* The graph runs a node whenever one is due.
SpecPersonaFair == SpecPersona /\ WF_vars(NextPersona)

---------------------------------------------------------------------------
(* The memo bot: handle_message on the handler threads of the Slack app    *)
(* and the module-level cache _processed_messages, statement by statement. *)

MAX_CACHE_SIZE == 100

\* The messages delivered beyond MAX_CACHE_SIZE when the calls come one
\* after another.
MaxExtraCalls == 3

\* The messages delivered to the concurrent handlers.
MaxDeliveries == 3

\* The handler threads of the concurrent run.
HandlerThreads == { 1, 2 }

\* The keys 1..n in the order of their insertion.
KeysUpTo(n) == [i \in 1..n |-> i]

Keys(cache) == { cache[i] : i \in 1..Len(cache) }

\* A handler thread that waits for a message.
IdleThread == [pc |-> "idle", message_ts |-> 0]

\* The timestamps a message can come with: a new one, the one another
\* handler is working on, the oldest and the newest key of the cache, and
\* the key inserted right before the oldest one of the cache.
DeliveredTs ==
    { memo_next_ts }
    \cup { memo_threads[t].message_ts :
             t \in { u \in DOMAIN memo_threads : memo_threads[u].pc # "idle" } }
    \cup (IF processed_messages = <<>> THEN {}
          ELSE { processed_messages[1],
                 processed_messages[Len(processed_messages)] })
    \cup (IF Len(memo_inserted) > Len(processed_messages)
          THEN { memo_inserted[Len(memo_inserted) - Len(processed_messages)] }
          ELSE {})

\* The limit is tested with >= (mutation of CacheTooLarge).
CacheTooLargeAtLimit(cache) == Len(cache) >= MAX_CACHE_SIZE

\* while len(_processed_messages) > MAX_CACHE_SIZE
CacheTooLarge(cache) == Len(cache) > MAX_CACHE_SIZE

\* The newest key is removed (mutation of PopItem).
PopItemLast(cache) == SubSeq(cache, 1, Len(cache) - 1)

\* _processed_messages.popitem(last=False): the oldest key is removed.
PopItem(cache) == Tail(cache)

\* The calls of _is_already_processed come one after another, from an empty
\* cache.
InitCache ==
    /\ pc = "memo"
    /\ SchedulerIdle
    /\ PersonaIdle
    /\ processed_messages = <<>>
    /\ memo_threads = [t \in { 1 } |-> IdleThread]
    /\ calls_left = MAX_CACHE_SIZE + MaxExtraCalls
    /\ memo_next_ts = 1
    /\ memo_inserted = <<>>
    /\ graph_runs = <<>>

\* Two handler threads, and a cache that is empty or holds MAX_CACHE_SIZE
\* keys from the messages handled before.
InitMemo ==
    /\ pc = "memo"
    /\ SchedulerIdle
    /\ PersonaIdle
    /\ processed_messages \in { <<>>, KeysUpTo(MAX_CACHE_SIZE) }
    /\ memo_threads = [t \in HandlerThreads |-> IdleThread]
    /\ calls_left = MaxDeliveries
    /\ memo_next_ts = Len(processed_messages) + 1
    /\ memo_inserted = processed_messages
    /\ graph_runs = <<>>

\* What the steps of the memo bot leave alone.
memo_frame == << pc, scheduler_state, persona_vars >>

\* A message event comes in and handle_message starts on thread t.
MemoReceive(t) ==
    /\ memo_threads[t].pc = "idle"
    /\ calls_left > 0
    /\ \E ts \in DeliveredTs :
          /\ memo_threads' =
                [memo_threads EXCEPT ![t] = [pc |-> "check", message_ts |-> ts]]
          /\ memo_next_ts' = IF ts = memo_next_ts THEN memo_next_ts + 1
                             ELSE memo_next_ts
    /\ calls_left' = calls_left - 1
    /\ UNCHANGED << processed_messages, memo_inserted, graph_runs, memo_frame >>

\* if message_ts in _processed_messages: return True, and handle_message
\* returns without running the graph.
MemoCheck(t) ==
    /\ memo_threads[t].pc = "check"
    /\ memo_threads' =
          [memo_threads EXCEPT ![t] =
             IF memo_threads[t].message_ts \in Keys(processed_messages)
             THEN IdleThread
             ELSE [@ EXCEPT !.pc = "insert"]]
    /\ UNCHANGED << processed_messages, calls_left, memo_next_ts,
                    memo_inserted, graph_runs, memo_frame >>

\* _processed_messages[message_ts] = True: a new key goes to the end, a key
\* that is there keeps its place.
MemoInsert(t) ==
    /\ memo_threads[t].pc = "insert"
    /\ LET ts == memo_threads[t].message_ts
       IN  IF ts \in Keys(processed_messages)
           THEN UNCHANGED << processed_messages, memo_inserted >>
           ELSE /\ processed_messages' = Append(processed_messages, ts)
                /\ memo_inserted' = Append(memo_inserted, ts)
    /\ memo_threads' = [memo_threads EXCEPT ![t].pc = "while"]
    /\ UNCHANGED << calls_left, memo_next_ts, graph_runs, memo_frame >>

\* The test of the while loop; after the loop, return False.
MemoWhile(t) ==
    /\ memo_threads[t].pc = "while"
    /\ memo_threads' =
          [memo_threads EXCEPT ![t].pc =
             IF CacheTooLarge(processed_messages) THEN "popitem"
             ELSE "run_graph"]
    /\ UNCHANGED << processed_messages, calls_left, memo_next_ts,
                    memo_inserted, graph_runs, memo_frame >>

\* The body of the while loop.
MemoPopItem(t) ==
    /\ memo_threads[t].pc = "popitem"
    /\ processed_messages' = PopItem(processed_messages)
    /\ memo_threads' = [memo_threads EXCEPT ![t].pc = "while"]
    /\ UNCHANGED << calls_left, memo_next_ts, memo_inserted, graph_runs,
                    memo_frame >>

\* handle_message goes on after False and runs the memo graph.
MemoRunGraph(t) ==
    /\ memo_threads[t].pc = "run_graph"
    /\ graph_runs' = Append(graph_runs, memo_threads[t].message_ts)
    /\ memo_threads' = [memo_threads EXCEPT ![t] = IdleThread]
    /\ UNCHANGED << processed_messages, calls_left, memo_next_ts,
                    memo_inserted, memo_frame >>

NextMemo ==
    \/ \E t \in DOMAIN memo_threads : MemoReceive(t)
    \/ \E t \in DOMAIN memo_threads : MemoCheck(t)
    \/ \E t \in DOMAIN memo_threads : MemoInsert(t)
    \/ \E t \in DOMAIN memo_threads : MemoWhile(t)
    \/ \E t \in DOMAIN memo_threads : MemoPopItem(t)
    \/ \E t \in DOMAIN memo_threads : MemoRunGraph(t)

\* The calls one after another.
SpecCache == InitCache /\ [][NextMemo]_vars

\* The handlers side by side.
SpecMemo == InitMemo /\ [][NextMemo]_vars

---------------------------------------------------------------------------
(* Interval helpers used by the properties *)

\* t lies in one of the half-open slots <<start, end>>.
InSlots(t, slots) == \E i \in 1..Len(slots) : slots[i][1] <= t /\ t < slots[i][2]

\* t lies in one of the half-open busy events.
InEvents(t, evs) ==
    \E i \in 1..Len(evs) : evs[i].start_time <= t /\ t < evs[i].end_time

\* t lies in the clamped working window.
InWindow(t, ws, we, nw) == WindowStart(ws, nw) <= t /\ t < WindowEnd(we)

SlotEnds(slots) == { slots[i][1] : i \in 1..Len(slots) }
                   \cup { slots[i][2] : i \in 1..Len(slots) }

EventEnds(evs) == { evs[i].start_time : i \in 1..Len(evs) }
                  \cup { evs[i].end_time : i \in 1..Len(evs) }

\* Every point at which membership in a slot, an event or the window can
\* change.  All the intervals are half-open with end points in this set, so
\* two unions of them are equal iff they agree on every point of the set.
CalcBreakpoints ==
    SlotEnds(free_slots) \cup EventEnds(todays_events)
    \cup { WindowStart(work_start_hour, now), WindowEnd(work_end_hour) }

IsSortedDisjoint(slots) ==
    /\ \A i \in 1..(Len(slots) - 1) :
          /\ slots[i][1] <= slots[i + 1][1]
          /\ slots[i][2] <= slots[i + 1][1]
    /\ \A i, j \in 1..Len(slots) :
          i < j => ~ \E t \in SlotEnds(slots) :
                       /\ slots[i][1] <= t /\ t < slots[i][2]
                       /\ slots[j][1] <= t /\ t < slots[j][2]

EventsOverlap(a, b) == a.start_time < b.end_time /\ b.start_time < a.end_time

---------------------------------------------------------------------------
(* Properties of the calculator, checked under SpecCalc *)

\* C1: the union of the intervals returned by calculate_free_slots equals the
\* clamped window [max(today@work_start_hour, now), today@work_end_hour)
\* minus the union of the busy events, for every order and overlap of the
\* events, every pair of hours and every now.
C1_UnionIsWindowMinusBusy ==
    pc = "calc_done" =>
        \A t \in CalcBreakpoints :
            InSlots(t, free_slots) <=>
                ( /\ InWindow(t, work_start_hour, work_end_hour, now)
                  /\ ~ InEvents(t, todays_events) )

\* Two overlapping events given out of start order, both inside the window,
\* with free time before and after them.
C1_Witness ==
    /\ pc = "calc_done"
    /\ Len(todays_events) = 2
    /\ EventsOverlap(todays_events[1], todays_events[2])
    /\ todays_events[1].start_time > todays_events[2].start_time
    /\ todays_events[2].start_time > WindowStart(work_start_hour, now)
    /\ Len(free_slots) = 2

\* C2: the list returned by calculate_free_slots is sorted ascending by start
\* and its intervals are pairwise disjoint (a.end <= b.start for consecutive
\* slots a, b).
C2_SortedDisjoint ==
    pc = "calc_done" => IsSortedDisjoint(free_slots)

\* Two separate events given out of order produce slots between them.
C2_Witness ==
    /\ pc = "calc_done"
    /\ Len(todays_events) = 2
    /\ todays_events[1].start_time > todays_events[2].end_time
    /\ Len(free_slots) >= 2

---------------------------------------------------------------------------
(* Helpers over the history of the placer *)

\* The slot list as it was right after the k-th processed task.
SlotsAfter(k) ==
    IF k < Len(placements) THEN placements[k + 1].slots_before ELSE available_slots

RECURSIVE TotalDuration(_)
TotalDuration(slots) ==
    IF slots = <<>> THEN 0
    ELSE (slots[1][2] - slots[1][1]) + TotalDuration(Tail(slots))

\* The indices of the slots of a list that can hold a duration.
SlotsWithRoom(slots, duration) ==
    { i \in 1..Len(slots) : slots[i][2] - slots[i][1] >= duration }

\* The preferred time of the k-th task resolves and lies in a slot, of the
\* list the task was processed on, with enough room after it.
PreferredFits(k) ==
    LET task == extracted_tasks[k]
        p == PreferredStart(task)
        before == placements[k].slots_before
    IN  /\ p # None
        /\ \E i \in 1..Len(before) :
              /\ before[i][1] <= p[1] /\ p[1] < before[i][2]
              /\ before[i][2] - p[1] >= TaskDuration(task)

\* schedule_tasks has returned after running its loop.
PlacerReturned ==
    pc \in { "generate_response", "END" } /\ placements # <<>>

---------------------------------------------------------------------------
(* Properties of the placer, checked under Spec *)

\* C3: no placement made by schedule_tasks overlaps a busy event that was
\* given to calculate_free_slots: for every placed interval [s, e) and every
\* busy event [bs, be), e <= bs or be <= s.
C3_NoPlacementOverBusy ==
    \A k \in 1..Len(placements) :
        placements[k].placed =>
            \A i \in 1..Len(todays_events) :
                \/ placements[k].end_time <= todays_events[i].start_time
                \/ todays_events[i].end_time <= placements[k].start_time

\* A task placed right at the end of a busy event of positive length.
C3_Witness ==
    \E k \in 1..Len(placements) : \E i \in 1..Len(todays_events) :
        /\ placements[k].placed
        /\ todays_events[i].start_time < todays_events[i].end_time
        /\ placements[k].start_time = todays_events[i].end_time

\* C4: a task whose preferred time resolves to p, processed on a slot list
\* holding a slot s with s.start <= p < s.end and s.end - p >= duration, is
\* placed at exactly [p, p + duration).
C4_PreferredHonoured ==
    \A k \in 1..Len(placements) :
        PreferredFits(k) =>
            /\ placements[k].placed
            /\ placements[k].start_time = PreferredStart(extracted_tasks[k])[1]
            /\ placements[k].end_time =
                   PreferredStart(extracted_tasks[k])[1]
                   + TaskDuration(extracted_tasks[k])

\* A preferred time that fits while the fallback search would have chosen
\* another start.
C4_Witness ==
    \E k \in 1..Len(placements) :
        /\ PreferredFits(k)
        /\ placements[k].placed
        /\ LET before == placements[k].slots_before
               room == SlotsWithRoom(before, TaskDuration(extracted_tasks[k]))
           IN  /\ room # {}
               /\ before[Min(room)][1] # placements[k].start_time

\* C5: a task with no preferred time, or whose preferred time is not held by
\* a slot with enough room after it, is placed at [s.start, s.start + d) for
\* the lowest-index slot s with s.end - s.start >= d; a task is left
\* unplaced if and only if no slot has that much room.
C5_FallbackFirstFit ==
    \A k \in 1..Len(placements) :
        LET d == TaskDuration(extracted_tasks[k])
            before == placements[k].slots_before
            room == SlotsWithRoom(before, d)
        IN  /\ placements[k].placed <=> room # {}
            /\ (~ PreferredFits(k) /\ room # {}) =>
                   /\ placements[k].start_time = before[Min(room)][1]
                   /\ placements[k].end_time = before[Min(room)][1] + d

\* A preferred time that cannot be honoured, and a first slot too short: the
\* task goes to the start of a later slot.
C5_Witness ==
    \E k \in 1..Len(placements) :
        /\ PreferredStart(extracted_tasks[k]) # None
        /\ ~ PreferredFits(k)
        /\ placements[k].placed
        /\ Len(placements[k].slots_before) >= 2
        /\ placements[k].start_time = placements[k].slots_before[2][1]

\* C6: starting from a sorted, disjoint free-slot list, the list is sorted
\* ascending by start and pairwise disjoint after every placement.
C6_SlotsStaySortedDisjoint ==
    IsSortedDisjoint(free_slots) =>
        /\ IsSortedDisjoint(available_slots)
        /\ \A k \in 1..Len(placements) : IsSortedDisjoint(SlotsAfter(k))

\* Two placements in the middle of slots, each splitting one.
C6_Witness ==
    /\ Len(placements) = 2
    /\ placements[1].placed /\ placements[2].placed
    /\ Len(free_slots) >= 1
    /\ Len(available_slots) = Len(free_slots) + 2

\* C7: a successful placement of a task of duration d reduces the total
\* duration of the free-slot list by exactly d; an unplaced task leaves the
\* total unchanged.
C7_TotalDecreasesByDuration ==
    \A k \in 1..Len(placements) :
        TotalDuration(SlotsAfter(k)) =
            TotalDuration(placements[k].slots_before)
            - (IF placements[k].placed
               THEN TaskDuration(extracted_tasks[k]) ELSE 0)

\* One task placed in the middle of a slot and one task left unplaced.
C7_Witness ==
    /\ Len(placements) = 2
    /\ placements[1].placed
    /\ Len(placements[2].slots_before) = Len(placements[1].slots_before) + 1
    /\ ~ placements[2].placed
    /\ free_slots # <<>>

\* The event the commit of the k-th task registers.
EventOf(k) ==
    [task |-> k, start_time |-> placements[k].start_time,
     end_time |-> placements[k].end_time]

\* C8: when the commit fails for a task, schedule_tasks stops at once: no
\* later task is searched for or committed, the error is reported, and the
\* returned scheduled_events holds exactly the placements committed before
\* the failure, in order.
C8_CommitFailureStops ==
    error_message = "commit_failed" =>
        /\ pc \in { "generate_response", "END" }
        /\ commit_calls # <<>>
        /\ Len(placements) = commit_calls[Len(commit_calls)]
        /\ task_idx = commit_calls[Len(commit_calls)]
        /\ scheduled_events =
               [ j \in 1..(Len(commit_calls) - 1) |-> EventOf(commit_calls[j]) ]
        /\ pc = "END" => response_text = ErrorResponse(error_message)

\* The commit of the second task fails after the first task was registered.
C8_Witness ==
    /\ error_message = "commit_failed"
    /\ pc = "END"
    /\ Len(scheduled_events) = 1
    /\ Len(commit_calls) = 2

\* Every point at which membership in a slot list of the run or in a placed
\* interval can change.
PlacerBreakpoints ==
    SlotEnds(free_slots) \cup SlotEnds(available_slots)
    \cup UNION { SlotEnds(placements[k].slots_before) : k \in 1..Len(placements) }
    \cup { placements[k].start_time : k \in 1..Len(placements) }
    \cup { placements[k].end_time : k \in 1..Len(placements) }

\* t lies in the interval given to one of the tasks before the k-th.
InEarlierPlacement(t, k) ==
    \E j \in 1..(k - 1) :
        /\ placements[j].placed
        /\ placements[j].start_time <= t /\ t < placements[j].end_time

\* C9: the commit is invoked exactly once for every task that was given a
\* slot and never for an unplaced task, in the order of the tasks; the
\* registered events are a subsequence of the task list; and the k-th task is
\* searched on the free list left by the placements of the tasks before it.
C9_CommitOncePerPlacementInOrder ==
    /\ \A j \in 1..Len(commit_calls) :
          /\ commit_calls[j] \in 1..Len(placements)
          /\ placements[commit_calls[j]].placed
    /\ \A i, j \in 1..Len(commit_calls) :
          i < j => commit_calls[i] < commit_calls[j]
    /\ \A k \in 1..Len(placements) :
          placements[k].placed => \E j \in 1..Len(commit_calls) : commit_calls[j] = k
    /\ \A i, j \in 1..Len(sched_local) :
          i < j => sched_local[i].task < sched_local[j].task
    /\ \A k \in 1..Len(placements) :
          /\ placements[k].task = k
          /\ \A t \in PlacerBreakpoints :
                InSlots(t, placements[k].slots_before) <=>
                    (InSlots(t, free_slots) /\ ~ InEarlierPlacement(t, k))

\* Two tasks registered, the second one searched on a list changed by the
\* first.
C9_Witness ==
    /\ Len(commit_calls) = 2
    /\ Len(sched_local) = 2
    /\ placements[2].slots_before # free_slots
    /\ pc = "END"

\* C10 as stated: the output holds one record per input task, so its length
\* equals the number of input tasks (here on runs without any error).
C10_OneRecordPerTask ==
    (PlacerReturned /\ error_message = "none") =>
        Len(scheduled_events) = Len(extracted_tasks)

\* C10 as amended: the output holds one record per task that was given a
\* slot and registered, in input order, with the interval of its placement;
\* a task left unplaced has no record, so the output is never longer than
\* the task list.
C10_OneRecordPerRegisteredTask ==
    PlacerReturned =>
        /\ Len(scheduled_events) <= Len(extracted_tasks)
        /\ \A i, j \in 1..Len(scheduled_events) :
              i < j => scheduled_events[i].task < scheduled_events[j].task
        /\ \A j \in 1..Len(scheduled_events) :
              /\ scheduled_events[j].task \in 1..Len(placements)
              /\ placements[scheduled_events[j].task].placed
              /\ scheduled_events[j] = EventOf(scheduled_events[j].task)
        /\ \A k \in 1..Len(placements) :
              (placements[k].placed
                 /\ ~ (error_message = "commit_failed" /\ k = Len(placements)))
              => \E j \in 1..Len(scheduled_events) : scheduled_events[j].task = k

\* A run without error in which one task is registered and one is left out.
C10_Witness ==
    /\ PlacerReturned
    /\ error_message = "none"
    /\ Len(extracted_tasks) = 2
    /\ Len(scheduled_events) = 1
    /\ \E k \in 1..2 : ~ placements[k].placed

\* C11: when no slot of the current list can hold a task, no error is raised
\* and no commit is made for it, the list is left unchanged, and the loop
\* goes on to the next task, which is placed if it fits.
C11_UnplacedIsSkipped ==
    \A k \in 1..Len(placements) :
        SlotsWithRoom(placements[k].slots_before,
                      TaskDuration(extracted_tasks[k])) = {} =>
            /\ ~ placements[k].placed
            /\ SlotsAfter(k) = placements[k].slots_before
            /\ \A j \in 1..Len(commit_calls) : commit_calls[j] # k
            /\ (k = Len(placements) /\ pc # "schedule_tasks_loop") =>
                   /\ error_message = "none"
                   /\ k = Len(extracted_tasks)
            /\ (k = Len(placements) /\ pc = "schedule_tasks_loop") =>
                   /\ error_message = "none"
                   /\ task_idx = k + 1

\* A task that fits nowhere is followed by a task that is placed and
\* registered.
C11_Witness ==
    /\ Len(placements) = 2
    /\ ~ placements[1].placed
    /\ placements[2].placed
    /\ Len(scheduled_events) = 1
    /\ error_message = "none"
    /\ pc = "END"

\* The slot of the list before the k-th task that holds its placement.
HoldingSlots(k) ==
    { i \in 1..Len(placements[k].slots_before) :
        /\ placements[k].slots_before[i][1] <= placements[k].start_time
        /\ placements[k].end_time <= placements[k].slots_before[i][2] }

\* The non-empty leftovers of slot b around the interval [s, e), in order.
Leftovers(b, s, e) ==
    (IF b[1] < s THEN << << b[1], s >> >> ELSE <<>>)
    \o (IF e < b[2] THEN << << e, b[2] >> >> ELSE <<>>)

\* C14: a successful placement changes exactly one slot: the chosen slot is
\* replaced, at its position, by its non-empty leftover before the placement
\* and/or its non-empty leftover after it; every other slot keeps its value
\* and its relative order.
C14_OneSlotChanged ==
    \A k \in 1..Len(placements) :
        placements[k].placed =>
            \E i \in HoldingSlots(k) :
                LET before == placements[k].slots_before
                    after == SlotsAfter(k)
                    mid == Leftovers(before[i], placements[k].start_time,
                                     placements[k].end_time)
                IN  /\ Len(after) = Len(before) - 1 + Len(mid)
                    /\ \A j \in 1..(i - 1) : after[j] = before[j]
                    /\ \A j \in 1..Len(mid) : after[i - 1 + j] = mid[j]
                    /\ \A j \in (i + 1)..Len(before) :
                           after[j - 1 + Len(mid)] = before[j]
                    /\ \A j \in 1..Len(mid) : mid[j][1] < mid[j][2]

\* A placement at the very start of the second of two slots: the first slot
\* is kept and the second one shrinks.
C14_Witness ==
    \E k \in 1..Len(placements) :
        /\ placements[k].placed
        /\ Len(placements[k].slots_before) = 2
        /\ placements[k].start_time = placements[k].slots_before[2][1]
        /\ Len(SlotsAfter(k)) = 2

\* C15: a task is never split across slots: every placement has exactly the
\* length of the task's duration and lies inside one single slot of the list
\* as it was right before the placement.
C15_NoSplitAcrossSlots ==
    \A k \in 1..Len(placements) :
        placements[k].placed =>
            /\ placements[k].end_time - placements[k].start_time =
                   TaskDuration(extracted_tasks[k])
            /\ HoldingSlots(k) # {}

\* The preferred start lies in a slot that is too short after it while the
\* slot touching it has room: the task goes whole into the later slot.
C15_Witness ==
    \E k \in 1..Len(placements) :
        LET before == placements[k].slots_before
            p == placements[k].preferred_start
        IN  /\ placements[k].placed
            /\ p # None
            /\ Len(before) >= 2
            /\ before[1][1] <= p[1] /\ p[1] < before[1][2]
            /\ before[1][2] = before[2][1]
            /\ placements[k].start_time = before[2][1]

\* C19 as stated: after the placer returns, the free-slot list of the caller
\* (state.free_slots) reflects every placement made during the run, so no
\* placed interval is still free in it.
C19_CallerListReflectsPlacements ==
    PlacerReturned =>
        \A k \in 1..Len(placements) :
            placements[k].placed =>
                ~ InSlots(placements[k].start_time, free_slots)

\* C19 as amended: the placer works on a private copy of state.free_slots;
\* the copy reflects every placement made during the run, and the list of
\* the caller is still the list the calculator returned.
C19_PlacerWorksOnCopy ==
    placements # <<>> =>
        /\ free_slots = calculate_free_slots(todays_events, work_start_hour,
                                             work_end_hour, now)
        /\ \A k \in 1..Len(placements) :
              placements[k].placed =>
                  /\ InSlots(placements[k].start_time, free_slots)
                  /\ ~ InSlots(placements[k].start_time, available_slots)
        /\ \A t \in PlacerBreakpoints :
              InSlots(t, available_slots) <=>
                  ( /\ InSlots(t, free_slots)
                    /\ ~ InEarlierPlacement(t, Len(placements) + 1) )

\* The placer has returned after two placements and the two lists differ.
C19_Witness ==
    /\ PlacerReturned
    /\ Len(placements) = 2
    /\ placements[1].placed /\ placements[2].placed
    /\ available_slots # free_slots

---------------------------------------------------------------------------
(* Further properties of the calculator, checked under SpecCalc *)

\* C12: if now is at or after today's work_end_hour, calculate_free_slots
\* returns the empty list whatever the events are.
C12_EmptyAfterWorkEnd ==
    (pc # "calc" /\ now >= Hour(work_end_hour)) => free_slots = <<>>

\* The clock reads exactly work_end_hour and an event is going on.
C12_Witness ==
    /\ pc = "calc_done"
    /\ now = Hour(work_end_hour)
    /\ InEvents(now, todays_events)
    /\ Len(todays_events) = 2

\* C13: no interval returned by calculate_free_slots has zero or negative
\* length, also when events overlap, follow each other without a gap, share
\* an end point, start at the window start or end at the window end.
C13_NoEmptySlot ==
    pc # "calc" =>
        \A i \in 1..Len(free_slots) : free_slots[i][1] < free_slots[i][2]

\* Two events without a gap between them, the first starting exactly at the
\* start of the window, and free time after them.
C13_Witness ==
    /\ pc = "calc_done"
    /\ Len(todays_events) = 2
    /\ \E i, j \in 1..2 :
          /\ todays_events[i].start_time = WindowStart(work_start_hour, now)
          /\ todays_events[i].start_time < todays_events[i].end_time
          /\ todays_events[i].end_time = todays_events[j].start_time
          /\ todays_events[j].start_time < todays_events[j].end_time
    /\ free_slots # <<>>

\* An event of the first call was kept by the overlap filter.
SomeEventInWindow ==
    \E i \in 1..Len(todays_events) :
        ~ ( \/ todays_events[i].end_time <= WindowStart(work_start_hour, now)
            \/ todays_events[i].start_time >= WindowEnd(work_end_hour) )

\* C18 as stated: running the calculator again with an empty busy-event list
\* (same window, same now) returns the list of the first call unchanged.
C18_SecondCallReturnsSameList ==
    pc = "calc_again_done" => second_slots = free_slots

\* C18 as amended: the second call, with an empty busy-event list, returns
\* the whole clamped window as one slot (the empty list when the window is
\* empty); that is the list of the first call exactly when the window is
\* empty or no event of the first call overlapped it.
C18_SecondCallReturnsWindow ==
    pc = "calc_again_done" =>
        LET window_start == WindowStart(work_start_hour, now)
            window_end == WindowEnd(work_end_hour)
        IN  /\ second_slots = IF window_start < window_end
                              THEN << << window_start, window_end >> >>
                              ELSE <<>>
            /\ (second_slots = free_slots) <=>
                   (window_start >= window_end \/ ~ SomeEventInWindow)

\* A second call after a first call whose events lay outside the window, in
\* a window that the clock has already entered.
C18_Witness ==
    /\ pc = "calc_again_done"
    /\ todays_events # <<>>
    /\ now > Hour(work_start_hour)
    /\ second_slots = free_slots
    /\ second_slots # <<>>

---------------------------------------------------------------------------
(* Properties of the preferred-time texts, checked under SpecTexts *)

\* The hour the text stands for: the first integer group, plus 12 under an
\* afternoon marker when below 12, 0 under a morning marker when equal to 12.
ClaimedHour(text) ==
    IF text.pm /\ text.nums[1] < 12 THEN text.nums[1] + 12
    ELSE IF text.am /\ text.nums[1] = 12 THEN 0
    ELSE text.nums[1]

\* The minute the text stands for: the second integer group, 0 without one.
ClaimedMinute(text) == IF Len(text.nums) >= 2 THEN text.nums[2] ELSE 0

\* A text that is there but gives no valid time of day.
NoValidTime(text) ==
    /\ text.present
    /\ \/ text.nums = <<>>
       \/ ClaimedHour(text) > 23
       \/ ClaimedMinute(text) > 59

\* C16: a preferred-time text that yields no valid time of day (no digits,
\* hour > 23 after the am/pm folding, minute > 59) raises no error: the task
\* is treated as having no preferred time and the fallback first-fit search
\* is applied to it.
C16_InvalidTextFallsBack ==
    /\ pc = "RAISED" =>
           ~ NoValidTime(extracted_tasks[task_idx].preferred_time)
    /\ \A k \in 1..Len(placements) :
        NoValidTime(extracted_tasks[k].preferred_time) =>
            LET d == TaskDuration(extracted_tasks[k])
                before == placements[k].slots_before
                room == SlotsWithRoom(before, d)
            IN  /\ placements[k].preferred_start = None
                /\ placements[k].placed <=> room # {}
                /\ room # {} =>
                       /\ placements[k].start_time = before[Min(room)][1]
                       /\ placements[k].end_time = before[Min(room)][1] + d
                /\ error_message # "none" => placements[k].placed

\* The run is left by the exception at a task whose text has an hour
\* above 23, before any slot is given to the task.
C16_Witness ==
    /\ pc = "RAISED"
    /\ extracted_tasks[task_idx].preferred_time.wide = { 1 }
    /\ NoValidTime(extracted_tasks[task_idx].preferred_time)
    /\ free_slots # <<>>
    /\ placements = <<>>

\* C17: for a text with first integer group h and optional second group m
\* the resolved hour is h + 12 under an afternoon marker when h < 12, 0 under
\* a morning marker when the hour equals 12, else h; the minute is m, or 0
\* without a second group.
C17_Resolution ==
    \A k \in 1..Len(placements) :
        LET text == extracted_tasks[k].preferred_time
        IN  (text.present /\ text.nums # <<>> /\ ~ NoValidTime(text)) =>
                placements[k].preferred_start =
                    << Hour(ClaimedHour(text)) + Minute(ClaimedMinute(text)) >>

\* A text with both markers and hour 12 resolves to 00:59.
C17_Witness ==
    /\ Len(placements) = 1
    /\ extracted_tasks[1].preferred_time.pm
    /\ extracted_tasks[1].preferred_time.am
    /\ extracted_tasks[1].preferred_time.nums = <<12, 59>>
    /\ placements[1].preferred_start = << Minute(59) >>

---------------------------------------------------------------------------
(* Properties of concurrent runs, checked under SpecConc *)

RECURSIVE SoloRun(_, _, _)
\* What schedule_tasks alone makes of the slots after the first n tasks:
\* the list and the placement of every task.
SoloRun(slots, tasks, n) ==
    IF n = 0
    THEN [slots |-> slots, placements |-> <<>>]
    ELSE LET prev == SoloRun(slots, tasks, n - 1)
             r == PlaceTask(prev.slots, tasks[n])
         IN  [slots |-> r.slots,
              placements |-> Append(prev.placements,
                                    [placed |-> r.placed,
                                     start_time |-> r.start_time,
                                     end_time |-> r.end_time])]

\* C20: when two schedule_tasks runs are interleaved, each run's placements
\* and its free-slot list equal what the run produces alone on the same free
\* slots and tasks, and neither run's list is changed by the other: the list
\* is always as the run itself last left it, and no run fails on an index.
C20_RunsAreIsolated ==
    \A r \in DOMAIN conc_runs :
        LET run == conc_runs[r]
            solo == SoloRun(run.free_slots, run.extracted_tasks,
                            Len(run.placements))
        IN  /\ run.error_message # "index_error"
            /\ run.entered => conc_lists[SlotCell(r)] = run.seen
            /\ (run.entered /\ run.pc \in { "for", "commit", "END" }) =>
                   /\ run.placements = solo.placements
                   /\ run.pc # "commit" => conc_lists[SlotCell(r)] = solo.slots
            /\ run.pc = "commit" =>
                   conc_lists[SlotCell(r)] =
                       PlaceTask(solo.slots,
                                 run.extracted_tasks[run.task_idx]).slots

\* Both runs are over, each has given a slot to a task and each took steps
\* while the other was inside an iteration.
C20_Witness ==
    /\ pc = "concurrent"
    /\ \A r \in RunIds :
           /\ conc_runs[r].pc = "END"
           /\ conc_runs[r].interleaved
           /\ Len(conc_runs[r].scheduled_events) >= 1
           /\ conc_runs[r].free_slots # conc_lists[SlotCell(r)]

---------------------------------------------------------------------------
(* Properties of the calculator and the placer, continued *)

\* The list without its i-th element.
RemoveAt(s, i) == SubSeq(s, 1, i - 1) \o SubSeq(s, i + 1, Len(s))

\* The event lies entirely outside the clamped window of the state.
OutsideClampedWindow(e) ==
    \/ e.end_time <= WindowStart(work_start_hour, now)
    \/ e.start_time >= WindowEnd(work_end_hour)

\* C21: busy events lying entirely outside the clamped window (end <=
\* window start or start >= window end) are discarded: removing any such
\* event from the list, or adding it back, leaves the result of
\* calculate_free_slots unchanged.
C21_OutsideEventsDiscarded ==
    pc = "calc_done" =>
        \A i \in 1..Len(todays_events) :
            OutsideClampedWindow(todays_events[i]) =>
                calculate_free_slots(RemoveAt(todays_events, i),
                                     work_start_hour, work_end_hour, now)
                    = free_slots

\* An event after the end of the window and an event inside it, with free
\* time left.
C21_Witness ==
    /\ pc = "calc_done"
    /\ free_slots # <<>>
    /\ \E i \in 1..Len(todays_events) :
           todays_events[i].start_time >= WindowEnd(work_end_hour)
    /\ \E i \in 1..Len(todays_events) :
           /\ ~ OutsideClampedWindow(todays_events[i])
           /\ todays_events[i].start_time < todays_events[i].end_time


\* The value is a list of pairs of times.
IsSlotList(slots) ==
    /\ DOMAIN slots = 1..Len(slots)
    /\ \A i \in 1..Len(slots) :
           /\ DOMAIN slots[i] = 1..2
           /\ slots[i][1] \in Int
           /\ slots[i][2] \in Int

\* C22: calculate_free_slots always terminates and returns a (possibly
\* empty) list for every finite list of events: every call reaches its
\* return, and the value returned is the list the loop has built.
C22_AlwaysReturnsList ==
    <>(/\ pc = "sweep_returned"
       /\ IsSlotList(free_slots)
       /\ free_slots = calculate_free_slots(todays_events, work_start_hour,
                                            work_end_hour, now))

\* The call has returned after a loop over as many events as the bound
\* admits, with an empty list.
C22_Witness ==
    /\ pc = "sweep_returned"
    /\ Len(sweep_events) = MaxEvents
    /\ sweep_idx = MaxEvents + 1
    /\ free_slots = <<>>


\* Every slot of the list has a strictly positive length.
AllPositive(slots) == \A i \in 1..Len(slots) : slots[i][1] < slots[i][2]

\* C23: after any sequence of placements every slot in the free list has
\* strictly positive length; a slot whose length equals the task's duration
\* exactly is accepted by the search and is removed entirely, leaving no
\* remnant.  In the window 09:00-21:00, with A of 30 minutes at 10:00 and B
\* of 60 minutes without preference, B takes [09:00,10:00) and the final
\* list is [10:30,21:00).
C23_NoZeroLengthSlot ==
    /\ AllPositive(available_slots)
    /\ \A k \in 1..Len(placements) :
           LET before == placements[k].slots_before
               after == SlotsAfter(k)
               d == TaskDuration(extracted_tasks[k])
               exact == { i \in 1..Len(before) :
                            before[i][2] - before[i][1] = d }
           IN  /\ AllPositive(after)
               /\ (exact # {} /\ SlotsWithRoom(before, d) = exact
                   /\ ~ PreferredFits(k)) =>
                      /\ placements[k].placed
                      /\ placements[k].start_time = before[Min(exact)][1]
                      /\ placements[k].end_time = before[Min(exact)][2]
                      /\ Len(after) = Len(before) - 1
                      /\ after = RemoveAt(before, Min(exact))
    /\ ( /\ free_slots = << << Hour(9), Hour(21) >> >>
         /\ extracted_tasks = << Task(30, TimeText(FALSE, FALSE, <<10>>)),
                                 Task(60, NoText) >>
         /\ Len(placements) = 2 ) =>
           /\ placements[1].placed
           /\ placements[1].start_time = Hour(10)
           /\ placements[1].end_time = Hour(10) + Minute(30)
           /\ placements[2].placed
           /\ placements[2].start_time = Hour(9)
           /\ placements[2].end_time = Hour(10)
           /\ available_slots = << << Hour(10) + Minute(30), Hour(21) >> >>

\* The example of the claim: B has taken the slot [09:00,10:00) that A left
\* before its own interval, and one slot is left.
C23_Witness ==
    /\ free_slots = << << Hour(9), Hour(21) >> >>
    /\ extracted_tasks = << Task(30, TimeText(FALSE, FALSE, <<10>>)),
                            Task(60, NoText) >>
    /\ Len(placements) = 2
    /\ placements[2].slots_before =
           << << Hour(9), Hour(10) >>, << Hour(10) + Minute(30), Hour(21) >> >>
    /\ Len(available_slots) = 1


\* C24: nothing is scheduled into the past or outside the working window:
\* every interval returned by calculate_free_slots, and every placement made
\* from it, starts at or after max(today@work_start_hour, now) and ends at
\* or before today@work_end_hour, also when a preferred time earlier than
\* now is requested.
C24_NothingBeforeNowOrOutsideWindow ==
    /\ \A i \in 1..Len(free_slots) :
           /\ WindowStart(work_start_hour, now) <= free_slots[i][1]
           /\ free_slots[i][2] <= WindowEnd(work_end_hour)
    /\ \A k \in 1..Len(placements) :
           placements[k].placed =>
               /\ WindowStart(work_start_hour, now) <= placements[k].start_time
               /\ placements[k].end_time <= WindowEnd(work_end_hour)

\* now is after 10:00 within the working hours and a task preferring 10:00
\* has been placed, at now.
C24_Witness ==
    /\ now > Hour(10)
    /\ \E k \in 1..Len(placements) :
           /\ placements[k].preferred_start = << Hour(10) >>
           /\ placements[k].placed
           /\ placements[k].start_time = now
           /\ Len(scheduled_events) >= 1


\* C25: within one scheduling run the placement intervals of any two
\* distinct placed tasks never overlap, whatever mix of preferred-time and
\* fallback placements produced them.
C25_PlacementsDisjoint ==
    \A j, k \in 1..Len(placements) :
        (j < k /\ placements[j].placed /\ placements[k].placed) =>
            \/ placements[j].end_time <= placements[k].start_time
            \/ placements[k].end_time <= placements[j].start_time

\* A task placed at its preferred time in the middle of a slot, then a task
\* placed by the fallback search right before it.
C25_Witness ==
    /\ Len(placements) = 2
    /\ placements[1].placed /\ placements[2].placed
    /\ placements[1].preferred_start = << placements[1].start_time >>
    /\ placements[2].preferred_start = None
    /\ placements[2].end_time = placements[1].start_time


\* Consecutive slots of the list are separated by a strictly positive gap.
StrictGaps(slots) ==
    \A i \in 1..(Len(slots) - 1) : slots[i][2] < slots[i + 1][1]

\* C26: free slots are maximal: given busy events with start < end (and
\* task durations > 0), consecutive slots of the free list are separated by
\* a strictly positive gap (a.end < b.start), in the list returned by
\* calculate_free_slots and after any sequence of placements.
C26_SlotsAreMaximal ==
    (\A i \in 1..Len(todays_events) :
         todays_events[i].start_time < todays_events[i].end_time) =>
        /\ StrictGaps(free_slots)
        /\ StrictGaps(available_slots)
        /\ \A k \in 1..Len(placements) : StrictGaps(SlotsAfter(k))

\* Two busy events of positive length that touch, and two tasks placed in
\* the middle of slots: four slots with gaps between them.
C26_Witness ==
    /\ Len(todays_events) = 2
    /\ todays_events[1].start_time < todays_events[1].end_time
    /\ todays_events[1].end_time = todays_events[2].start_time
    /\ todays_events[2].start_time < todays_events[2].end_time
    /\ Len(free_slots) = 2
    /\ Len(placements) = 2
    /\ placements[1].placed /\ placements[2].placed
    /\ Len(available_slots) >= 3


\* error_message has been set by fetch_calendar_events or by analyze_tasks.
EarlyError ==
    error_message \in { "credentials_missing", "calendar_fetch_failed",
                        "task_parse_failed" }

\* The edges of the graph from analyze_tasks on.
ErrorRoute ==
    { << "analyze_tasks", "schedule_tasks" >>,
      << "schedule_tasks", "generate_response" >>,
      << "generate_response", "END" >> }

\* C27: once error_message is set by an earlier node (calendar fetch
\* failure or unparseable task JSON) no calendar commit is ever made in that
\* run, the workflow still reaches generate_response, and the response text
\* is the error message: from then on every step keeps the message and
\* follows the edges of the graph, no node before the end is stuck, nothing
\* is placed or committed, and at the end the response is the error text
\* of the message.
C27_EarlyErrorIsReported ==
    /\ [](EarlyError =>
            /\ commit_calls = <<>>
            /\ scheduled_events = <<>>
            /\ placements = <<>>
            /\ pc \in { "analyze_tasks", "schedule_tasks",
                        "generate_response", "END" }
            /\ pc # "END" => ENABLED << Next >>_vars
            /\ pc = "END" => response_text = ErrorResponse(error_message))
    /\ [][EarlyError =>
            /\ error_message' = error_message
            /\ << pc, pc' >> \in ErrorRoute]_vars

\* The calendar could not be read and the run has ended with the text of
\* that error.
C27_Witness ==
    /\ pc = "END"
    /\ error_message = "calendar_fetch_failed"
    /\ response_text = ErrorResponse("calendar_fetch_failed")
    /\ commit_calls = <<>>

---------------------------------------------------------------------------
(* Properties of the customer persona agent, checked under SpecPersonaFair *)

\* The run of the persona agent is under way or over.
PersonaRuns == pc \in { "generate", "review", "finalize", "END" }

\* C28 as stated: the generate/review loop always terminates at finalize,
\* generate_feedback is executed at most max_iterations times in one run,
\* and the loop stops as soon as a review is appropriate or iteration reaches
\* max_iterations.
C28_AtMostMaxIterations ==
    PersonaRuns => generate_calls <= persona.max_iterations

\* C28, amended: generate_feedback is executed at most max(1,
\* max_iterations) times in one run (the first generation comes before any
\* test of the limit); the loop leaves review for finalize exactly when the
\* review is appropriate or iteration has reached max_iterations, and every
\* run ends after finalize with status completed or failed.
C28_LoopIsBounded ==
    /\ [](PersonaRuns =>
            /\ generate_calls = persona.iteration
            /\ generate_calls <= persona.max_iterations \/ generate_calls <= 1)
    /\ [][pc = "review" =>
            /\ pc' \in { "generate", "finalize" }
            /\ pc' = "finalize" <=>
                   \/ persona'.review.is_appropriate
                   \/ persona'.iteration >= persona'.max_iterations]_vars
    /\ [][pc' = "END" => pc = "finalize"]_vars
    /\ <>(pc = "END" /\ persona.status \in { "completed", "failed" })

\* Three generations were all found inappropriate under max_iterations = 3:
\* the run has ended as failed.
C28_Witness ==
    /\ pc = "END"
    /\ persona.max_iterations = 3
    /\ generate_calls = 3
    /\ persona.status = "failed"
    /\ persona.feedback_history = << 1, 2, 3 >>

---------------------------------------------------------------------------
(* Properties of the memo bot *)

\* How often x occurs in the sequence.
Occurrences(x, s) == Cardinality({ i \in 1..Len(s) : s[i] = x })

\* C29: for any message timestamp, when several handle_message invocations
\* for that timestamp run, one after another or interleaved on different
\* handler threads, at most one of them gets False from
\* _is_already_processed and goes on to run the memo graph, as long as the
\* timestamp has not been evicted: the graph has run for a timestamp at most
\* once per insertion of the timestamp into the cache.
C29_AtMostOneRunPerTimestamp ==
    pc = "memo" =>
        \A ts \in Keys(graph_runs) :
            Occurrences(ts, graph_runs) <= Occurrences(ts, memo_inserted)

\* Two handlers have run the graph for one timestamp that was inserted
\* once and is still in the cache.
C29_Witness ==
    /\ pc = "memo"
    /\ \E ts \in Keys(graph_runs) :
           /\ Occurrences(ts, graph_runs) = 2
           /\ Occurrences(ts, memo_inserted) = 1
           /\ ts \in Keys(processed_messages)

\* The last n elements of the sequence (all of them if it is shorter).
LastN(s, n) == IF Len(s) <= n THEN s ELSE SubSeq(s, Len(s) - n + 1, Len(s))

\* No call of _is_already_processed is under way.
CacheAtRest ==
    \A t \in DOMAIN memo_threads :
        memo_threads[t].pc \in { "idle", "check", "run_graph" }

\* C30: after any sequence of _is_already_processed calls the cache holds at
\* most MAX_CACHE_SIZE (100) entries, eviction removes the oldest-inserted
\* timestamp first, and the most recently inserted 100 distinct timestamps
\* are all still present: the cache is the last 100 insertions in order.
C30_CacheIsLastHundredInsertions ==
    (pc = "memo" /\ CacheAtRest) =>
        /\ Len(processed_messages) <= MAX_CACHE_SIZE
        /\ processed_messages = LastN(memo_inserted, MAX_CACHE_SIZE)
        /\ Cardinality(Keys(processed_messages)) = Len(processed_messages)

\* More than MAX_CACHE_SIZE insertions, one of them of a timestamp that had
\* been evicted before: the cache is full and its oldest key is gone.
C30_Witness ==
    /\ pc = "memo"
    /\ CacheAtRest
    /\ Len(memo_inserted) = MAX_CACHE_SIZE + 2
    /\ Len(processed_messages) = MAX_CACHE_SIZE
    /\ Occurrences(1, memo_inserted) = 2
    /\ processed_messages[1] = 3

=============================================================================
